---------------------------- MODULE Spec2Model ----------------------------
(***************************************************************************)
(* Model of the polite crawler of src/tools/crawler: URL normalisation     *)
(* (url_utils.py), the per-origin robots cache (robots.py), the page       *)
(* fetcher (fetch.py), link extraction (parse.py) and the breadth-first    *)
(* crawl loop (crawl.py).                                                  *)
(*                                                                         *)
(* A URL string is represented by the record urllib.parse.urlparse splits  *)
(* it into: scheme, netloc, path, query, fragment.  A path is the sequence *)
(* of its tokens, "/" being the slash token, so "/a/" is <<"/","a","/">>.  *)
(* Only path-absolute references occur in the modelled pages; ;params are  *)
(* always empty.  An origin string "scheme://netloc" is the pair           *)
(* <<scheme, netloc>>.                                                     *)
(***************************************************************************)
EXTENDS Integers, Sequences, FiniteSets, TLC

(***************************************************************************)
(* Python values                                                           *)
(***************************************************************************)
None == [none |-> TRUE]
Some(v) == [some |-> v]

U(scheme, netloc, path, query, fragment) ==
    [scheme |-> scheme, netloc |-> netloc, path |-> path,
     query |-> query, fragment |-> fragment]

\* str.lower() on the strings that occur in the model
Lower(s) ==
    CASE s = "HTTP" -> "http"
      [] s = "HTTPS" -> "https"
      [] s = "A.TEST" -> "a.test"
      [] s = "B.Test" -> "b.test"
      [] s = "EXAMPLE.com" -> "example.com"
      [] OTHER -> s

\* str.rstrip("/") on a path
RECURSIVE RstripSlash(_)
RstripSlash(path) ==
    IF path # <<>> /\ path[Len(path)] = "/"
    THEN RstripSlash(SubSeq(path, 1, Len(path) - 1))
    ELSE path

\* urllib.parse.urlparse: the scheme comes back lower-cased, the rest as written
urlparse(url) == [url EXCEPT !.scheme = Lower(@)]

\* urllib.parse.urljoin for absolute URLs, path-absolute and fragment-only references
uses_relative == {"http", "https", "ftp", ""}

urljoin(base, url) ==
    LET b == urlparse(base)
        u == urlparse(url)
        scheme == IF u.scheme = "" THEN b.scheme ELSE u.scheme
    IN  IF scheme # b.scheme \/ scheme \notin uses_relative THEN url
        ELSE IF u.netloc # "" THEN [u EXCEPT !.scheme = scheme]
        ELSE IF u.path = <<>>
             THEN U(scheme, b.netloc, b.path,
                    IF u.query = "" THEN b.query ELSE u.query, u.fragment)
        ELSE U(scheme, b.netloc, u.path, u.query, u.fragment)

\* urllib.parse.urlunparse (CPython 3.11), given as the split of the string it
\* builds: "//" netloc is written before the path only if there is a netloc or
\* the path does not itself begin with "//"; a path "//x/y" under an empty
\* netloc is written "scheme://x/y", which reads back as netloc x, path /y
uses_netloc == {"http", "https", "ftp", ""}

urlunparse(scheme, netloc, path, query, fragment) ==
    IF netloc = "" /\ Len(path) >= 2 /\ path[1] = "/" /\ path[2] = "/"
    THEN LET rest == SubSeq(path, 3, Len(path))
         IN  IF rest # <<>> /\ rest[1] # "/"
             THEN U(scheme, rest[1], Tail(rest), query, fragment)
             ELSE U(scheme, "", rest, query, fragment)
    ELSE IF (netloc # "" \/ scheme \in uses_netloc) /\ path # <<>> /\ path[1] # "/"
    THEN U(scheme, netloc, <<"/">> \o path, query, fragment)
    ELSE U(scheme, netloc, path, query, fragment)

(***************************************************************************)
(* url_utils.py                                                            *)
(***************************************************************************)
normalize_urlKeepsFragment(url0, base) ==
    LET url == IF base # None THEN urljoin(base, url0) ELSE url0
        p == urlparse(url)
        netloc == Lower(p.netloc)
        stripped == RstripSlash(p.path)
        path == IF stripped = <<>> THEN <<"/">> ELSE stripped
    IN  IF p.scheme \notin {"http", "https"} THEN None
        ELSE urlunparse(Lower(p.scheme), netloc, path, p.query, p.fragment)

normalize_url(url0, base) ==
    LET url == IF base # None THEN urljoin(base, url0) ELSE url0
        p == urlparse(url)
        netloc == Lower(p.netloc)
        stripped == RstripSlash(p.path)
        path == IF stripped = <<>> THEN <<"/">> ELSE stripped
    IN  IF p.scheme \notin {"http", "https"} THEN None
        ELSE urlunparse(Lower(p.scheme), netloc, path, p.query, "")

\* f"{scheme}://{netloc}".lower() of a parsed URL
OriginOf(url) ==
    LET p == urlparse(url)
    IN  <<Lower(IF p.scheme = "" THEN "https" ELSE p.scheme), Lower(p.netloc)>>

allow_domain(url, allowed_origins) ==
    IF allowed_origins = None \/ allowed_origins.some = {} THEN TRUE
    ELSE OriginOf(url) \in allowed_origins.some


(***************************************************************************)
(* The web the crawler runs against.  Each site maps a URL to the document *)
(* served for it: title, description, text and the href attributes of its  *)
(* <a> elements in document order.                                         *)
(***************************************************************************)
Href(path) == U("", "", path, "", "")
Doc(title, description, text, hrefs) ==
    [title |-> title, description |-> description, text |-> text, hrefs |-> hrefs]
EmptyDoc == Doc("", "", "", <<>>)

A(path) == U("https", "a.test", path, "", "")
B(path) == U("https", "b.test", path, "", "")
X(path) == U("https", "x.test", path, "", "")

Sites == {"tree", "cross"}

Document(site, url) ==
    IF site = "tree" THEN
        CASE url = A(<<"/">>) ->
                Doc("Home", "home page", "welcome",
                    <<Href(<<"/", "b">>), Href(<<"/", "c">>), X(<<"/">>)>>)
          [] url = A(<<"/", "b">>) ->
                Doc("B", "", "text of b",
                    <<Href(<<"/">>), Href(<<"/", "c", "/">>), Href(<<"/", "d">>),
                      U("", "", <<>>, "", "top")>>)
          [] url = A(<<"/", "c">>) ->
                Doc("", "", "",
                    <<Href(<<"/", "b", "/">>), U("mailto", "", <<"x@a.test">>, "", ""),
                      Href(<<"/", "private", "/", "page">>),
                      U("", "", <<"/", "b">>, "", "sec")>>)
          [] url = A(<<"/", "d">>) ->
                Doc("D", "deep", "", <<Href(<<"/", "slow">>), Href(<<"/", "d">>)>>)
          [] url = X(<<"/">>) ->
                Doc("X", "", "", <<A(<<"/", "d">>), U("HTTPS", "x.test", <<>>, "", "f")>>)
          [] OTHER -> EmptyDoc
    ELSE IF site = "cross" THEN
        CASE url = A(<<"/">>) -> Doc("Home", "", "", <<B(<<"/", "x">>)>>)
          [] url = B(<<"/", "x">>) ->
                Doc("X", "", "", <<U("HTTPS", "A.TEST", <<>>, "", ""), Href(<<"/", "y">>)>>)
          [] OTHER -> EmptyDoc
    ELSE
        \* site "moved": /old answers with the page that https://x.test/landing
        \* serves, see Redirect
        CASE url = A(<<"/">>) ->
                Doc("Home", "", "", <<Href(<<"/", "old">>), Href(<<"/", "c">>)>>)
          [] url = A(<<"/", "old">>) ->
                Doc("Landing", "", "moved to x.test", <<Href(<<"/", "next">>)>>)
          [] url = X(<<"/", "landing">>) ->
                Doc("Landing", "", "moved to x.test", <<Href(<<"/", "next">>)>>)
          [] OTHER -> EmptyDoc

\* fetch.py lines 27-32, allow_redirects=True: the URL a 3xx answer of the
\* server sends the GET on to, None where the server answers itself
Redirect(site, url) ==
    IF site = "moved" /\ url = A(<<"/", "old">>) THEN X(<<"/", "landing">>)
    ELSE None

\* the requests one requests.get sends: for the URL, then for the target of
\* its redirect; the outcome is that of the last one
Requests(site, url, outcome) ==
    IF Redirect(site, url) = None
    THEN <<[kind |-> "get", target |-> url, outcome |-> outcome]>>
    ELSE <<[kind |-> "get", target |-> url, outcome |-> "redirect"],
           [kind |-> "get", target |-> Redirect(site, url), outcome |-> outcome]>>

\* the Disallow prefixes robots.txt of an origin states for every user agent
RobotsTxt(origin) ==
    IF origin = <<"https", "a.test">> THEN {<<"/", "private", "/">>} ELSE {}

(***************************************************************************)
(* robots.py: urllib.robotparser.RobotFileParser and the per-origin cache  *)
(***************************************************************************)
IsPrefix(s, t) == Len(s) <= Len(t) /\ SubSeq(t, 1, Len(s)) = s

\* RobotFileParser(): nothing read yet
NewRobotFileParser == [last_checked |-> FALSE, disallow |-> {}]

\* RobotFileParser.parse(lines): marks the file as read and keeps its rules
RobotsParse(rp, disallow) == [rp EXCEPT !.last_checked = TRUE, !.disallow = disallow]

\* RobotFileParser.can_fetch: no URL is allowable until a file has been read
rp_can_fetch(rp, url) ==
    IF ~rp.last_checked THEN FALSE
    ELSE \A d \in rp.disallow : ~IsPrefix(d, urlparse(url).path)

_origin(url) ==
    LET p == urlparse(url)
    IN  <<IF p.scheme = "" THEN "https" ELSE p.scheme, p.netloc>>

RobotsOutcomes == {"timeout", "status", "garbage", "rules"}

\* the parser can_fetch stores for an origin after requesting its robots.txt
RobotsEntry(origin, outcome) ==
    CASE outcome = "rules" -> RobotsParse(NewRobotFileParser, RobotsTxt(origin))
      [] outcome = "garbage" -> RobotsParse(NewRobotFileParser, {})
      [] OTHER -> NewRobotFileParser

(***************************************************************************)
(* parse.py                                                                *)
(***************************************************************************)
SkippedHref(href) ==
    \/ href = U("", "", <<>>, "", "")
    \/ (href.scheme = "" /\ href.netloc = "" /\ href.path = <<>> /\ href.query = "")
    \/ href.scheme = "javascript"

RECURSIVE ExtractLinks(_, _, _)
ExtractLinks(hrefs, base_url, links) ==
    IF hrefs = <<>> THEN links
    ELSE LET href == Head(hrefs)
             full == urljoin(base_url, href)
             keep == /\ ~SkippedHref(href)
                     /\ urlparse(full).scheme \in {"http", "https"}
                     /\ \A i \in 1..Len(links) : links[i] # full
         IN  ExtractLinks(Tail(hrefs), base_url,
                          IF keep THEN Append(links, full) ELSE links)

parse_html(html, base_url) ==
    [title |-> html.title, description |-> html.description, text |-> html.text,
     links |-> ExtractLinks(html.hrefs, base_url, <<>>)]

(***************************************************************************)
(* Bounds of the model and the inputs of a run                             *)
(***************************************************************************)
MaxPagesBound == 3
MaxDepthBound == 1

FetchTimeoutCap == 15
RobotsTimeoutCap == 10

OriginA == <<"https", "a.test">>
OriginB == <<"https", "b.test">>

SeedLists ==
    { <<>>,
      <<A(<<"/">>)>>,
      <<U("ftp", "a.test", <<"/">>, "", "")>>,
      <<A(<<"/", "private", "/", "page">>)>>,
      <<A(<<"/", "private", "/", "page">>), A(<<"/", "c">>)>>,
      <<A(<<"/">>), B(<<"/", "y">>)>>,
      <<U("mailto", "", <<"x@a.test">>, "", ""), A(<<"/", "b", "/">>),
        U("HTTPS", "A.TEST", <<"/", "b">>, "", "top"), U("https", "a.test", <<>>, "", "")>> }

AllowedOriginSets ==
    {None, Some({}), Some({OriginA}), Some({OriginB}), Some({OriginA, OriginB})}

\* the limits of time of a run: <<timeout_seconds, request_delay>>
Paces == {<<5, 1>>, <<60, 0>>}

\* <<same_origin_only, allowed_origins>>
Policies ==
    ({TRUE} \X {None, Some({OriginB})}) \cup ({FALSE} \X AllowedOriginSets)

VARIABLES
    site,               \* the web the process runs against
    seed_urls, max_pages, max_depth, timeout_seconds,
    same_origin_only, allowed_origins, request_delay,   \* arguments of run_crawl
    queue, seen, seed_origins, results,                 \* locals of run_crawl
    cur,                \* the (url, depth) pair popped last
    elapsed,            \* time.monotonic() - start
    pc,                 \* position of the run
    robots_cache,       \* robots._robots_cache
    net,                \* the sleeps and requests made so far, in order
    callers             \* the can_fetch calls of other threads of the process

args == <<site, seed_urls, max_pages, max_depth, timeout_seconds,
          same_origin_only, allowed_origins, request_delay>>
vars == <<site, seed_urls, max_pages, max_depth, timeout_seconds,
          same_origin_only, allowed_origins, request_delay,
          queue, seen, seed_origins, results, cur, elapsed, pc, robots_cache, net,
          callers>>

Min(a, b) == IF a <= b THEN a ELSE b

(***************************************************************************)
(* crawl.py: run_crawl                                                     *)
(***************************************************************************)
CrawlResult(url, depth, title, description, snippet, status_code, links_found) ==
    [url |-> url, depth |-> depth, title |-> title, description |-> description,
     snippet |-> snippet, status_code |-> status_code, links_found |-> links_found]

\* f"[HTTP {status}]" for the statuses of the model
HttpSnippet(status) ==
    CASE status = 0 -> "[HTTP 0]"
      [] status = 200 -> "[HTTP 200]"
      [] OTHER -> "[HTTP 404]"

\* _snippet on the texts of the model, all stripped and shorter than max_len
_snippet(text) == text

RECURSIVE SeedLoopFirstOriginOnly(_, _)
SeedLoopFirstOriginOnly(seeds, acc) ==
    IF seeds = <<>> THEN acc
    ELSE LET n == normalize_url(Head(seeds), None)
         IN  SeedLoopFirstOriginOnly(Tail(seeds),
                IF n # None /\ n \notin acc.seen
                THEN [queue |-> Append(acc.queue, <<n, 0>>),
                      seen |-> acc.seen \cup {n},
                      seed_origins |-> IF acc.seed_origins = {} THEN {OriginOf(n)}
                                       ELSE acc.seed_origins]
                ELSE acc)

RECURSIVE SeedLoopPrepends(_, _)
SeedLoopPrepends(seeds, acc) ==
    IF seeds = <<>> THEN acc
    ELSE LET n == normalize_url(Head(seeds), None)
         IN  SeedLoopPrepends(Tail(seeds),
                IF n # None /\ n \notin acc.seen
                THEN [queue |-> <<<<n, 0>>>> \o acc.queue,
                      seen |-> acc.seen \cup {n},
                      seed_origins |-> acc.seed_origins \cup {OriginOf(n)}]
                ELSE acc)

\* lines 60-69: the seeds that normalise, once each, at depth 0
RECURSIVE SeedLoop(_, _)
SeedLoop(seeds, acc) ==
    IF seeds = <<>> THEN acc
    ELSE LET n == normalize_url(Head(seeds), None)
         IN  SeedLoop(Tail(seeds),
                IF n # None /\ n \notin acc.seen
                THEN [queue |-> Append(acc.queue, <<n, 0>>),
                      seen |-> acc.seen \cup {n},
                      seed_origins |-> acc.seed_origins \cup {OriginOf(n)}]
                ELSE acc)

\* line 73
fetch_timeout == Min(FetchTimeoutCap, timeout_seconds \div 3)

LoopGuardNoPageBudget == queue # <<>> /\ elapsed < timeout_seconds

LoopGuardNoClock == queue # <<>> /\ Len(results) < max_pages

\* line 75
LoopGuard == queue # <<>> /\ Len(results) < max_pages /\ elapsed < timeout_seconds

DepthExceededNever(depth) == FALSE

DepthExceededOffByOne(depth) == depth > max_depth + 1

\* line 77
DepthExceeded(depth) == depth > max_depth

effective_allowedSeedsOnly == Some(seed_origins)

effective_allowedIgnoresSameOrigin == allowed_origins

\* line 80
effective_allowed == IF same_origin_only THEN Some(seed_origins) ELSE allowed_origins

RECURSIVE EnqueueLinksNoSeen(_, _, _, _)
EnqueueLinksNoSeen(links, url, depth, acc) ==
    IF links = <<>> THEN acc
    ELSE LET n == normalize_url(Head(links), url)
         IN  EnqueueLinksNoSeen(Tail(links), url, depth,
                IF n = None THEN acc
                ELSE IF ~allow_domain(n, effective_allowed) THEN acc
                ELSE [queue |-> Append(acc.queue, <<n, depth + 1>>),
                      seen |-> acc.seen \cup {n}])

RECURSIVE EnqueueLinksNoOriginCheck(_, _, _, _)
EnqueueLinksNoOriginCheck(links, url, depth, acc) ==
    IF links = <<>> THEN acc
    ELSE LET n == normalize_url(Head(links), url)
         IN  EnqueueLinksNoOriginCheck(Tail(links), url, depth,
                IF n = None \/ n \in acc.seen THEN acc
                ELSE [queue |-> Append(acc.queue, <<n, depth + 1>>),
                      seen |-> acc.seen \cup {n}])

RECURSIVE EnqueueLinksAtFront(_, _, _, _)
EnqueueLinksAtFront(links, url, depth, acc) ==
    IF links = <<>> THEN acc
    ELSE LET n == normalize_url(Head(links), url)
         IN  EnqueueLinksAtFront(Tail(links), url, depth,
                IF n = None \/ n \in acc.seen THEN acc
                ELSE IF ~allow_domain(n, effective_allowed) THEN acc
                ELSE [queue |-> <<<<n, depth + 1>>>> \o acc.queue,
                      seen |-> acc.seen \cup {n}])

RECURSIVE EnqueueLinksRediscoveryUpdatesDepth(_, _, _, _)
EnqueueLinksRediscoveryUpdatesDepth(links, url, depth, acc) ==
    IF links = <<>> THEN acc
    ELSE LET n == normalize_url(Head(links), url)
         IN  EnqueueLinksRediscoveryUpdatesDepth(Tail(links), url, depth,
                IF n = None THEN acc
                ELSE IF ~allow_domain(n, effective_allowed) THEN acc
                ELSE IF n \in acc.seen
                THEN [queue |-> [i \in DOMAIN acc.queue |->
                                    IF acc.queue[i][1] = n THEN <<n, depth + 1>>
                                    ELSE acc.queue[i]],
                      seen |-> acc.seen]
                ELSE [queue |-> Append(acc.queue, <<n, depth + 1>>),
                      seen |-> acc.seen \cup {n}])

RECURSIVE EnqueueLinksRejectedMarkedSeen(_, _, _, _)
EnqueueLinksRejectedMarkedSeen(links, url, depth, acc) ==
    IF links = <<>> THEN acc
    ELSE LET n == normalize_url(Head(links), url)
         IN  EnqueueLinksRejectedMarkedSeen(Tail(links), url, depth,
                IF n = None \/ n \in acc.seen THEN acc
                ELSE IF ~allow_domain(n, effective_allowed)
                THEN [queue |-> acc.queue, seen |-> acc.seen \cup {n}]
                ELSE [queue |-> Append(acc.queue, <<n, depth + 1>>),
                      seen |-> acc.seen \cup {n}])

\* lines 119-126: the links not seen before and of an allowed origin, at depth + 1
RECURSIVE EnqueueLinks(_, _, _, _)
EnqueueLinks(links, url, depth, acc) ==
    IF links = <<>> THEN acc
    ELSE LET n == normalize_url(Head(links), url)
         IN  EnqueueLinks(Tail(links), url, depth,
                IF n = None \/ n \in acc.seen THEN acc
                ELSE IF ~allow_domain(n, effective_allowed) THEN acc
                ELSE [queue |-> Append(acc.queue, <<n, depth + 1>>),
                      seen |-> acc.seen \cup {n}])

Init ==
    /\ site \in Sites
    /\ seed_urls \in SeedLists
    /\ max_pages \in 1..MaxPagesBound
    /\ max_depth \in 0..MaxDepthBound
    /\ \E pace \in Paces : timeout_seconds = pace[1] /\ request_delay = pace[2]
    /\ \E policy \in Policies : same_origin_only = policy[1] /\ allowed_origins = policy[2]
    /\ queue = <<>>
    /\ seen = {}
    /\ seed_origins = {}
    /\ results = <<>>
    /\ cur = <<None, 0>>
    /\ elapsed = 0
    /\ pc = "start"
    /\ robots_cache = <<>>
    /\ net = <<>>
    /\ callers = <<>>

StartKeepsSeen ==
    /\ pc = "start"
    /\ LET acc == SeedLoop(seed_urls, [queue |-> <<>>, seen |-> seen, seed_origins |-> {}])
       IN  /\ queue' = acc.queue
           /\ seen' = acc.seen
           /\ seed_origins' = acc.seed_origins
    /\ results' = <<>>
    /\ elapsed' = 0
    /\ pc' = "loop"
    /\ UNCHANGED <<args, callers, cur, robots_cache, net>>

\* lines 59-73
Start ==
    /\ pc = "start"
    /\ LET acc == SeedLoop(seed_urls, [queue |-> <<>>, seen |-> {}, seed_origins |-> {}])
       IN  /\ queue' = acc.queue
           /\ seen' = acc.seen
           /\ seed_origins' = acc.seed_origins
    /\ results' = <<>>
    /\ elapsed' = 0
    /\ pc' = "loop"
    /\ UNCHANGED <<args, callers, cur, robots_cache, net>>

\* lines 75, 128: a guard of the loop fails and the results are returned
Return ==
    /\ pc = "loop"
    /\ ~LoopGuard
    /\ pc' = "done"
    /\ UNCHANGED <<args, callers, queue, seen, seed_origins, results, cur, elapsed, robots_cache, net>>

\* lines 76-78
SkipDepth ==
    /\ pc = "loop"
    /\ LoopGuard
    /\ DepthExceeded(Head(queue)[2])
    /\ cur' = Head(queue)
    /\ queue' = Tail(queue)
    /\ UNCHANGED <<args, callers, seen, seed_origins, results, elapsed, pc, robots_cache, net>>

SkipOriginRequeued ==
    /\ pc = "loop"
    /\ LoopGuard
    /\ ~DepthExceeded(Head(queue)[2])
    /\ ~allow_domain(Head(queue)[1], effective_allowed)
    /\ cur' = Head(queue)
    /\ queue' = Append(Tail(queue), Head(queue))
    /\ UNCHANGED <<args, callers, seen, seed_origins, results, elapsed, pc, robots_cache, net>>

\* lines 76-82
SkipOrigin ==
    /\ pc = "loop"
    /\ LoopGuard
    /\ ~DepthExceeded(Head(queue)[2])
    /\ ~allow_domain(Head(queue)[1], effective_allowed)
    /\ cur' = Head(queue)
    /\ queue' = Tail(queue)
    /\ UNCHANGED <<args, callers, seen, seed_origins, results, elapsed, pc, robots_cache, net>>

DequeueLeavesEntry ==
    /\ pc = "loop"
    /\ LoopGuard
    /\ ~DepthExceeded(Head(queue)[2])
    /\ allow_domain(Head(queue)[1], effective_allowed)
    /\ cur' = Head(queue)
    /\ pc' = "sleep"
    /\ UNCHANGED <<args, callers, queue, seen, seed_origins, results, elapsed, robots_cache, net>>

\* lines 76-82: the entry passes both checks
Dequeue ==
    /\ pc = "loop"
    /\ LoopGuard
    /\ ~DepthExceeded(Head(queue)[2])
    /\ allow_domain(Head(queue)[1], effective_allowed)
    /\ cur' = Head(queue)
    /\ queue' = Tail(queue)
    /\ pc' = "sleep"
    /\ UNCHANGED <<args, callers, seen, seed_origins, results, elapsed, robots_cache, net>>

SleepOnlyBeforeFirstFetch ==
    /\ pc = "sleep"
    /\ IF request_delay > 0 /\ results = <<>>
       THEN /\ elapsed' = elapsed + request_delay
            /\ net' = Append(net, [kind |-> "sleep", target |-> cur[1], outcome |-> "slept"])
       ELSE UNCHANGED <<elapsed, net>>
    /\ pc' = "can_fetch"
    /\ UNCHANGED <<args, callers, queue, seen, seed_origins, results, cur, robots_cache>>

\* lines 84-85
Sleep ==
    /\ pc = "sleep"
    /\ IF request_delay > 0
       THEN /\ elapsed' = elapsed + request_delay
            /\ net' = Append(net, [kind |-> "sleep", target |-> cur[1], outcome |-> "slept"])
       ELSE UNCHANGED <<elapsed, net>>
    /\ pc' = "can_fetch"
    /\ UNCHANGED <<args, callers, queue, seen, seed_origins, results, cur, robots_cache>>

AfterCanFetchIgnoresRobots(allowed) ==
    /\ pc' = "get"
    /\ UNCHANGED results

AfterCanFetchSilentDenial(allowed) ==
    /\ pc' = IF allowed THEN "get" ELSE "loop"
    /\ UNCHANGED results

AfterCanFetchDenialAsForbidden(allowed) ==
    IF allowed
    THEN /\ pc' = "get"
         /\ UNCHANGED results
    ELSE /\ results' = Append(results,
                CrawlResult(cur[1], cur[2], "", "", HttpSnippet(403), 403, 0))
         /\ pc' = "loop"

\* fetch.py lines 23-25 and crawl.py lines 93-95 once can_fetch has answered
AfterCanFetch(allowed) ==
    IF allowed
    THEN /\ pc' = "get"
         /\ UNCHANGED results
    ELSE /\ results' = Append(results,
                CrawlResult(cur[1], cur[2], "", "", HttpSnippet(0), 0, 0))
         /\ pc' = "loop"

CanFetchMissFailureNotCached ==
    /\ pc = "can_fetch"
    /\ _origin(cur[1]) \notin DOMAIN robots_cache
    /\ \E outcome \in RobotsOutcomes :
          LET origin == _origin(cur[1])
              rp == RobotsEntry(origin, outcome)
          IN  /\ robots_cache' = IF outcome = "timeout" THEN robots_cache
                                 ELSE robots_cache @@ (origin :> rp)
              /\ net' = Append(net, [kind |-> "robots", target |-> origin, outcome |-> outcome])
              /\ elapsed' = IF outcome = "timeout"
                            THEN elapsed + Min(RobotsTimeoutCap, fetch_timeout)
                            ELSE elapsed
              /\ AfterCanFetch(rp_can_fetch(rp, cur[1]))
    /\ UNCHANGED <<args, callers, queue, seen, seed_origins, cur>>

\* robots.py lines 30-45, the origin not cached: robots.txt is requested
CanFetchMiss ==
    /\ pc = "can_fetch"
    /\ _origin(cur[1]) \notin DOMAIN robots_cache
    /\ \E outcome \in RobotsOutcomes :
          LET origin == _origin(cur[1])
              rp == RobotsEntry(origin, outcome)
          IN  /\ robots_cache' = robots_cache @@ (origin :> rp)
              /\ net' = Append(net, [kind |-> "robots", target |-> origin, outcome |-> outcome])
              /\ elapsed' = IF outcome = "timeout"
                            THEN elapsed + Min(RobotsTimeoutCap, fetch_timeout)
                            ELSE elapsed
              /\ AfterCanFetch(rp_can_fetch(rp, cur[1]))
    /\ UNCHANGED <<args, callers, queue, seen, seed_origins, cur>>

CanFetchHitSkipsPolicy ==
    /\ pc = "can_fetch"
    /\ _origin(cur[1]) \in DOMAIN robots_cache
    /\ pc' = "get"
    /\ UNCHANGED <<args, callers, queue, seen, seed_origins, results, cur, elapsed, robots_cache, net>>

\* robots.py lines 30-45, the origin cached
CanFetchHit ==
    /\ pc = "can_fetch"
    /\ _origin(cur[1]) \in DOMAIN robots_cache
    /\ AfterCanFetch(rp_can_fetch(robots_cache[_origin(cur[1])], cur[1]))
    /\ UNCHANGED <<args, callers, queue, seen, seed_origins, cur, elapsed, robots_cache, net>>

AfterFetchErrorRecorded ==
    /\ pc' = "loop"
    /\ results' = Append(results,
          CrawlResult(cur[1], cur[2], "", "", HttpSnippet(0), 0, 0))
    /\ UNCHANGED <<queue, seen>>

AfterFetchErrorRetried ==
    /\ pc' = "loop"
    /\ queue' = Append(queue, cur)
    /\ UNCHANGED <<results, seen>>

\* crawl.py lines 89-91: the exception of fetch is logged and the entry skipped
AfterFetchError ==
    /\ pc' = "loop"
    /\ UNCHANGED <<results, queue, seen>>

AfterFetchNoBodyParsesAnyway(status) ==
    LET parsed == parse_html(Document(site, cur[1]), cur[1])
        acc == EnqueueLinks(parsed.links, cur[1], cur[2], [queue |-> queue, seen |-> seen])
    IN  /\ results' = Append(results,
              CrawlResult(cur[1], cur[2], "", "", HttpSnippet(status), status, 0))
        /\ pc' = "loop"
        /\ queue' = acc.queue
        /\ seen' = acc.seen

\* crawl.py lines 93-95: a status other than 200 or an empty body
AfterFetchNoBody(status) ==
    /\ results' = Append(results,
          CrawlResult(cur[1], cur[2], "", "", HttpSnippet(status), status, 0))
    /\ pc' = "loop"
    /\ UNCHANGED <<queue, seen>>

AfterParseErrorSkipped(status) ==
    /\ pc' = "loop"
    /\ UNCHANGED <<results, queue, seen>>

\* crawl.py lines 97-102: parse_html raised, str(e)[:200] is the snippet
AfterParseError(status) ==
    /\ results' = Append(results,
          CrawlResult(cur[1], cur[2], "", "", "parse error", status, 0))
    /\ pc' = "loop"
    /\ UNCHANGED <<queue, seen>>

PageOutcomes == {"timeout", "http_error", "non_html", "bad_html", "html"}

\* fetch.py lines 26-39 and crawl.py lines 89-126
Get ==
    /\ pc = "get"
    /\ \E outcome \in PageOutcomes :
          \E parsed \in {parse_html(Document(site, cur[1]), cur[1])} :
          LET url == cur[1]
              depth == cur[2]
              status == IF outcome = "http_error" THEN 404 ELSE 200
              desc == parsed.description
              acc == EnqueueLinks(parsed.links, url, depth, [queue |-> queue, seen |-> seen])
          IN  /\ net' = net \o Requests(site, url, outcome)
              /\ elapsed' = IF outcome = "timeout" THEN elapsed + fetch_timeout ELSE elapsed
              /\ CASE outcome = "timeout" ->
                        AfterFetchError
                   [] outcome \in {"http_error", "non_html"} ->
                        AfterFetchNoBody(status)
                   [] outcome = "bad_html" ->
                        AfterParseError(status)
                   [] OTHER ->
                        /\ results' = Append(results,
                              CrawlResult(url, depth, parsed.title, desc,
                                          _snippet(IF desc # "" THEN desc ELSE parsed.text),
                                          status, Len(parsed.links)))
                        /\ queue' = acc.queue
                        /\ seen' = acc.seen
                        /\ pc' = "loop"
    /\ UNCHANGED <<args, callers, seed_origins, cur, robots_cache>>

Next ==
    \/ Start
    \/ Return
    \/ SkipDepth
    \/ SkipOrigin
    \/ Dequeue
    \/ Sleep
    \/ CanFetchMiss
    \/ CanFetchHit
    \/ Get

Spec == Init /\ [][Next]_vars

\* Runs the clock cannot end: the largest timeout the configuration admits
\* (config.py line 163) and no delay, while all the requests of a run together
\* can time out for 9 * 15 + 3 * 10 seconds at most.
TermInit ==
    /\ site \in Sites
    /\ seed_urls \in { <<A(<<"/">>)>>, <<A(<<"/">>), B(<<"/", "x">>)>>,
                       <<A(<<"/", "private", "/", "page">>), A(<<"/", "c">>)>> }
    /\ max_pages \in {1, MaxPagesBound}
    /\ max_depth \in {0, MaxDepthBound}
    /\ timeout_seconds = 300 /\ request_delay = 0
    /\ \E policy \in {<<TRUE, None>>, <<FALSE, Some({OriginB})>>} :
          same_origin_only = policy[1] /\ allowed_origins = policy[2]
    /\ queue = <<>>
    /\ seen = {}
    /\ seed_origins = {}
    /\ results = <<>>
    /\ cur = <<None, 0>>
    /\ elapsed = 0
    /\ pc = "start"
    /\ robots_cache = <<>>
    /\ net = <<>>
    /\ callers = <<>>

\* run_crawl is one sequential loop and every call it makes returns (the
\* requests carry a timeout, sleep is finite): a step that can be taken is taken
TermSpec == TermInit /\ [][Next]_vars /\ WF_vars(Next)

\* The runs from the seed https://a.test/ on the web "tree" with max_pages = 5
\* and max_depth = 1, under every pace and policy.
ScenarioInit ==
    /\ site = "tree"
    /\ seed_urls = <<A(<<"/">>)>>
    /\ max_pages = 5
    /\ max_depth = 1
    /\ \E pace \in Paces : timeout_seconds = pace[1] /\ request_delay = pace[2]
    /\ \E policy \in Policies : same_origin_only = policy[1] /\ allowed_origins = policy[2]
    /\ queue = <<>>
    /\ seen = {}
    /\ seed_origins = {}
    /\ results = <<>>
    /\ cur = <<None, 0>>
    /\ elapsed = 0
    /\ pc = "start"
    /\ robots_cache = <<>>
    /\ net = <<>>
    /\ callers = <<>>

ScenarioSpec == ScenarioInit /\ [][Next]_vars

(***************************************************************************)
(* normalize_url on its own: run_crawl called with two seeds that are      *)
(* written in every way, up to the point where the seeds are normalised.   *)
(***************************************************************************)
RawUrls ==
    [scheme : {"http", "HTTP"}, netloc : {"example.com", "EXAMPLE.com"},
     path : {<<>>, <<"/">>, <<"/", "a">>, <<"/", "a", "/">>, <<"/", "b">>},
     query : {"", "q=1", "q=2"}, fragment : {"", "section"}]

NormInit ==
    /\ site = "tree"
    /\ seed_urls \in [1..2 -> RawUrls]
    /\ max_pages = 1
    /\ max_depth = 0
    /\ timeout_seconds = 60 /\ request_delay = 0
    /\ same_origin_only = TRUE
    /\ allowed_origins = None
    /\ queue = <<>>
    /\ seen = {}
    /\ seed_origins = {}
    /\ results = <<>>
    /\ cur = <<None, 0>>
    /\ elapsed = 0
    /\ pc = "start"
    /\ robots_cache = <<>>
    /\ net = <<>>
    /\ callers = <<>>

NormSpec == NormInit /\ [][Start]_vars

\* spellings without a host: http:////x, http:///x, http://///x/, http:, http:////
HostlessUrls ==
    [scheme : {"http", "HTTP"}, netloc : {""},
     path : {<<"/", "/", "x">>, <<"/", "x">>, <<"/", "/", "/", "x", "/">>, <<>>,
             <<"/", "/">>},
     query : {"", "q=1"}, fragment : {"", "section"}]

\* a run over one seed, of any spelling
OneSeedInit ==
    /\ site = "tree"
    /\ seed_urls \in [1..1 -> RawUrls \cup HostlessUrls]
    /\ max_pages = 1
    /\ max_depth = 0
    /\ timeout_seconds = 60 /\ request_delay = 0
    /\ same_origin_only = TRUE
    /\ allowed_origins = None
    /\ queue = <<>>
    /\ seen = {}
    /\ seed_origins = {}
    /\ results = <<>>
    /\ cur = <<None, 0>>
    /\ elapsed = 0
    /\ pc = "start"
    /\ robots_cache = <<>>
    /\ net = <<>>
    /\ callers = <<>>

OneSeedSpec == OneSeedInit /\ [][Start]_vars

\* runs against the site whose /old redirects to another origin
RedirectInit ==
    /\ site = "moved"
    /\ seed_urls \in {<<A(<<"/">>)>>, <<A(<<"/", "old">>)>>, <<A(<<"/">>), B(<<"/", "y">>)>>}
    /\ max_pages \in 1..MaxPagesBound
    /\ max_depth \in 0..MaxDepthBound
    /\ \E pace \in Paces : timeout_seconds = pace[1] /\ request_delay = pace[2]
    /\ \E policy \in {<<TRUE, None>>, <<FALSE, Some({OriginA})>>} :
            same_origin_only = policy[1] /\ allowed_origins = policy[2]
    /\ queue = <<>>
    /\ seen = {}
    /\ seed_origins = {}
    /\ results = <<>>
    /\ cur = <<None, 0>>
    /\ elapsed = 0
    /\ pc = "start"
    /\ robots_cache = <<>>
    /\ net = <<>>
    /\ callers = <<>>

RedirectSpec == RedirectInit /\ [][Next]_vars

(***************************************************************************)
(* robots.can_fetch called by two threads of one process.  The module has  *)
(* no lock: between the membership test of line 31, the request of line 35 *)
(* and the assignment of line 41 another thread may run.                   *)
(***************************************************************************)
Threads == 1..2

CallUrls == {A(<<"/">>), A(<<"/", "private", "/", "page">>), B(<<"/", "x">>)}

ConcurrentInit ==
    /\ site = "tree"
    /\ seed_urls = <<>>
    /\ max_pages = 1
    /\ max_depth = 0
    /\ timeout_seconds = 60 /\ request_delay = 0
    /\ same_origin_only = TRUE
    /\ allowed_origins = None
    /\ queue = <<>>
    /\ seen = {}
    /\ seed_origins = {}
    /\ results = <<>>
    /\ cur = <<None, 0>>
    /\ elapsed = 0
    /\ pc = "done"
    /\ robots_cache = <<>>
    /\ net = <<>>
    /\ callers \in [Threads -> {[pc |-> "test", url |-> u, rp |-> None, answer |-> None] :
                                    u \in CallUrls}]

\* robots.py lines 30-32: origin not in _robots_cache
CanFetchTest(t) ==
    /\ callers[t].pc = "test"
    /\ callers' = [callers EXCEPT ![t].pc =
                        IF _origin(callers[t].url) \in DOMAIN robots_cache
                        THEN "answer" ELSE "request",
                    ![t].rp = IF _origin(callers[t].url) \in DOMAIN robots_cache
                              THEN None ELSE NewRobotFileParser]
    /\ UNCHANGED <<args, queue, seen, seed_origins, results, cur, elapsed, pc,
                   robots_cache, net>>

\* robots.py lines 33-40: robots.txt is requested and, on a 200, parsed
CanFetchRequest(t) ==
    /\ callers[t].pc = "request"
    /\ \E outcome \in RobotsOutcomes :
          LET origin == _origin(callers[t].url)
          IN  /\ callers' = [callers EXCEPT ![t].pc = "store",
                                            ![t].rp = RobotsEntry(origin, outcome)]
              /\ net' = Append(net, [kind |-> "robots", target |-> origin,
                                     outcome |-> outcome])
    /\ UNCHANGED <<args, queue, seen, seed_origins, results, cur, elapsed, pc,
                   robots_cache>>

\* robots.py line 41: _robots_cache[origin] = rp
CanFetchStore(t) ==
    /\ callers[t].pc = "store"
    /\ robots_cache' = (_origin(callers[t].url) :> callers[t].rp) @@ robots_cache
    /\ callers' = [callers EXCEPT ![t].pc = "answer"]
    /\ UNCHANGED <<args, queue, seen, seed_origins, results, cur, elapsed, pc, net>>

\* robots.py lines 42-45: the answer of the entry the cache holds now
CanFetchAnswer(t) ==
    /\ callers[t].pc = "answer"
    /\ callers' = [callers EXCEPT
            ![t].pc = "returned",
            ![t].answer = Some(rp_can_fetch(robots_cache[_origin(callers[t].url)],
                                            callers[t].url))]
    /\ UNCHANGED <<args, queue, seen, seed_origins, results, cur, elapsed, pc,
                   robots_cache, net>>

ConcurrentNext ==
    \E t \in Threads :
        CanFetchTest(t) \/ CanFetchRequest(t) \/ CanFetchStore(t) \/ CanFetchAnswer(t)

ConcurrentSpec == ConcurrentInit /\ [][ConcurrentNext]_vars

(***************************************************************************)
(* A process that calls run_crawl again and again: the locals of a run are *)
(* new with every call, robots._robots_cache is a global of the module and *)
(* lives as long as the process.                                           *)
(***************************************************************************)
MaxLog == 4

ProcessSeedLists == { <<A(<<"/">>)>>, <<B(<<"/", "x">>), A(<<"/">>)>> }

ProcessInit ==
    /\ site = "cross"
    /\ seed_urls \in ProcessSeedLists
    /\ max_pages = 2
    /\ max_depth \in 0..1
    /\ timeout_seconds = 60 /\ request_delay = 0
    /\ same_origin_only \in BOOLEAN
    /\ allowed_origins \in {None, Some({OriginB})}
    /\ queue = <<>>
    /\ seen = {}
    /\ seed_origins = {}
    /\ results = <<>>
    /\ cur = <<None, 0>>
    /\ elapsed = 0
    /\ pc = "start"
    /\ robots_cache = <<>>
    /\ net = <<>>
    /\ callers = <<>>

\* The process calls run_crawl once more, after the run before has returned.
\* The call binds no local yet: queue, seen, seed_origins and results still
\* show the objects of the run before, until lines 60-72 make the new ones.
RunAgain ==
    /\ pc = "done"
    /\ Len(net) < MaxLog
    /\ seed_urls' \in ProcessSeedLists
    /\ max_depth' \in 0..1
    /\ same_origin_only' \in BOOLEAN
    /\ cur' = <<None, 0>>
    /\ pc' = "start"
    /\ UNCHANGED <<callers, site, max_pages, timeout_seconds, allowed_origins, request_delay,
                   queue, seen, seed_origins, results, elapsed, robots_cache, net>>

ProcessNext == Next \/ RunAgain

ProcessSpec == ProcessInit /\ [][ProcessNext]_vars

(***************************************************************************)
(* config.py: the crawler settings, read from the environment at access.   *)
(* Delays are counted in whole seconds.                                    *)
(***************************************************************************)
Max(a, b) == IF a >= b THEN a ELSE b

crawl_max_pages(raw) == Max(1, Min(500, raw))
crawl_max_depth(raw) == Max(1, Min(20, raw))
crawl_timeout_seconds(raw) == Max(5, Min(300, raw))
\* raw.float is false when float(raw) raises ValueError
crawl_request_delay_seconds(raw) == IF raw.float THEN Max(0, Min(10, raw.val)) ELSE 1

\* what CRAWL_MAX_PAGES, CRAWL_MAX_DEPTH, CRAWL_TIMEOUT_SECONDS and
\* CRAWL_REQUEST_DELAY may hold: the defaults and values around the clamps
Environments ==
    [pages : {0, 50, 501}, depth : {0, 3, 21}, timeout : {4, 60, 301},
     delay : {[float |-> TRUE, val |-> -1], [float |-> TRUE, val |-> 1],
              [float |-> TRUE, val |-> 11], [float |-> FALSE, val |-> 0]}]

\* A call of the tool crawl_website (pc = "tool", the limits as the integers
\* the caller gives, 0 for unset) or of run_crawl (pc = "call", each limit None
\* or supplied).
LimitsInit ==
    /\ site = "tree"
    /\ seed_urls = <<A(<<"/">>)>>
    /\ \/ /\ pc = "tool"
          /\ max_pages \in {0, 1, 501}
          /\ max_depth \in {0, 1, 21}
          /\ timeout_seconds = None
          /\ request_delay = None
          /\ same_origin_only \in BOOLEAN
          /\ allowed_origins = None
       \/ /\ pc = "call"
          /\ max_pages \in {None, Some(1), Some(501)}
          /\ max_depth \in {None, Some(0), Some(21)}
          /\ timeout_seconds \in {None, Some(4), Some(301)}
          /\ request_delay \in {None, Some(0), Some(11)}
          /\ \E policy \in Policies : same_origin_only = policy[1] /\ allowed_origins = policy[2]
    /\ queue = <<>>
    /\ seen = {}
    /\ seed_origins = {}
    /\ results = <<>>
    /\ cur = <<None, 0>>
    /\ elapsed = 0
    /\ robots_cache = <<>>
    /\ net = <<>>
    /\ callers = <<>>

\* __init__.py lines 41-51: crawl_website fills the limits left at 0 from the
\* settings and calls run_crawl with them
CrawlWebsiteCall ==
    /\ pc = "tool"
    /\ \E env \in Environments :
          /\ max_pages' = Some(IF max_pages > 0 THEN max_pages ELSE crawl_max_pages(env.pages))
          /\ max_depth' = Some(IF max_depth > 0 THEN max_depth ELSE crawl_max_depth(env.depth))
    /\ allowed_origins' = None
    /\ pc' = "call"
    /\ UNCHANGED <<callers, site, seed_urls, timeout_seconds, same_origin_only, request_delay,
                   queue, seen, seed_origins, results, cur, elapsed, robots_cache, net>>

\* crawl.py lines 53-57: run_crawl takes the limits not supplied from the settings
RunCrawlLimits ==
    /\ pc = "call"
    /\ \E env \in Environments :
          /\ max_pages' = IF max_pages # None THEN max_pages.some
                           ELSE crawl_max_pages(env.pages)
          /\ max_depth' = IF max_depth # None THEN max_depth.some
                           ELSE crawl_max_depth(env.depth)
          /\ timeout_seconds' = IF timeout_seconds # None THEN timeout_seconds.some
                                 ELSE crawl_timeout_seconds(env.timeout)
          /\ request_delay' = IF request_delay # None THEN request_delay.some
                               ELSE crawl_request_delay_seconds(env.delay)
    /\ pc' = "start"
    /\ UNCHANGED <<callers, site, seed_urls, same_origin_only, allowed_origins,
                   queue, seen, seed_origins, results, cur, elapsed, robots_cache, net>>

LimitsNext == CrawlWebsiteCall \/ RunCrawlLimits

LimitsSpec == LimitsInit /\ [][LimitsNext]_vars

(***************************************************************************)
(* __init__.py: the crawl_website tool around run_crawl                    *)
(***************************************************************************)
\* line 12: the first line of the summary, "Crawled N page(s)."
_format_crawl_results(res) == [reply |-> "Crawled", pages |-> Len(res)]

\* lines 38-54: what the tool returns for the seeds once run_crawl has returned
crawl_website ==
    IF seed_urls = <<>>
    THEN [reply |-> "No valid seed URLs provided", pages |-> 0]
    ELSE IF pc = "except"
    THEN [reply |-> "Crawl failed", pages |-> 0]
    ELSE _format_crawl_results(results)

\* what the environment variables of the crawler may hold as text: a number,
\* or a text that int() raises ValueError on
SettingTexts(n) == {[int |-> TRUE, val |-> n], [int |-> FALSE, val |-> 0]}

ToolEnvironments ==
    [pages : SettingTexts(50), depth : SettingTexts(3), timeout : SettingTexts(60),
     delay : {[float |-> TRUE, val |-> 1], [float |-> FALSE, val |-> 0]}]

\* A call of the tool: seed_urls is the list the seed string splits into, the
\* limits are the integers of the caller, 0 by default
ToolInit ==
    /\ site = "tree"
    /\ seed_urls \in {<<>>, <<A(<<"/">>)>>, <<U("ftp", "a.test", <<"/">>, "", "")>>}
    /\ max_pages \in {-1, 0, 1, 2}
    /\ max_depth \in {-1, 0, 1, 2}
    /\ timeout_seconds = None
    /\ request_delay = None
    /\ same_origin_only \in BOOLEAN
    /\ allowed_origins = None
    /\ queue = <<>>
    /\ seen = {}
    /\ seed_origins = {}
    /\ results = <<>>
    /\ cur = <<None, 0>>
    /\ elapsed = 0
    /\ pc = "tool"
    /\ robots_cache = <<>>
    /\ net = <<>>
    /\ callers = <<>>

\* __init__.py lines 38-43: no seed, or the limits left at 0 are read from the
\* settings (config.py lines 154, 158: int() of the text), before the try
CrawlWebsiteLimits ==
    /\ pc = "tool"
    /\ IF seed_urls = <<>>
       THEN /\ pc' = "returned"
            /\ UNCHANGED <<max_pages, max_depth>>
       ELSE \E env \in ToolEnvironments :
              IF \/ (max_pages <= 0 /\ ~env.pages.int)
                 \/ (max_depth <= 0 /\ ~env.depth.int)
              THEN /\ pc' = "raised"
                   /\ UNCHANGED <<max_pages, max_depth>>
              ELSE /\ max_pages' = IF max_pages > 0 THEN max_pages
                                   ELSE crawl_max_pages(env.pages.val)
                   /\ max_depth' = IF max_depth > 0 THEN max_depth
                                   ELSE crawl_max_depth(env.depth.val)
                   /\ pc' = "try"
    /\ UNCHANGED <<callers, site, seed_urls, timeout_seconds, same_origin_only,
                   allowed_origins, request_delay,
                   queue, seen, seed_origins, results, cur, elapsed, robots_cache, net>>

\* __init__.py lines 44-54 and crawl.py lines 53-57: run_crawl is called; it
\* reads its timeout and delay from the settings, where int() may raise and
\* the except clause returns "Crawl failed: ..." (pc = "except"); otherwise it
\* returns a list of records
CrawlWebsiteRunCrawl ==
    /\ pc = "try"
    /\ \E env \in ToolEnvironments :
          IF ~env.timeout.int
          THEN /\ pc' = "except"
               /\ UNCHANGED <<timeout_seconds, request_delay, results>>
          ELSE /\ timeout_seconds' = crawl_timeout_seconds(env.timeout.val)
               /\ request_delay' = crawl_request_delay_seconds(env.delay)
               /\ results' \in {<<>>,
                                 <<CrawlResult(seed_urls[1], 0, "", "", HttpSnippet(0), 0, 0)>>}
               /\ pc' = "ran"
    /\ UNCHANGED <<callers, site, seed_urls, max_pages, max_depth, same_origin_only,
                   allowed_origins, queue, seen, seed_origins, cur, elapsed,
                   robots_cache, net>>

\* __init__.py line 52: run_crawl has returned and the summary is returned
CrawlWebsiteReturn ==
    /\ pc = "ran"
    /\ pc' = "returned"
    /\ UNCHANGED <<args, callers, queue, seen, seed_origins, results, cur, elapsed,
                   robots_cache, net>>

ToolNext == CrawlWebsiteLimits \/ CrawlWebsiteRunCrawl \/ CrawlWebsiteReturn

ToolSpec == ToolInit /\ [][ToolNext]_vars

(***************************************************************************)
(* Properties                                                              *)
(***************************************************************************)
Indices(q) == 1..Len(q)
ResultUrls == {results[i].url : i \in Indices(results)}
QueueUrls == {queue[i][1] : i \in Indices(queue)}
GetTargets == {net[i].target : i \in {j \in Indices(net) : net[j].kind = "get"}}

\* the cached robots policy of the origin of u refuses u
Denied(u) ==
    /\ _origin(u) \in DOMAIN robots_cache
    /\ ~rp_can_fetch(robots_cache[_origin(u)], u)

\* a robots.txt that was read states a Disallow prefix of the path of u
DisallowedByRobotsTxt(u) ==
    /\ _origin(u) \in DOMAIN robots_cache
    /\ robots_cache[_origin(u)].last_checked
    /\ \E d \in robots_cache[_origin(u)].disallow : IsPrefix(d, u.path)

\* the normalised links of the document served for u
LinksOf(u) ==
    LET links == parse_html(Document(site, u), u).links
    IN  {normalize_url(links[i], u) : i \in Indices(links)} \ {None}

\* the URLs at link distance k or less from the URLs of near
RECURSIVE Around(_, _)
Around(near, k) ==
    IF k = 0 THEN near
    ELSE Around(near \cup UNION {LinksOf(u) : u \in near}, k - 1)

\* the URLs at link distance k or less from the seeds
Within(k) ==
    Around({normalize_url(seed_urls[i], None) : i \in Indices(seed_urls)} \ {None}, k)

\* C1: the result list never holds the same normalised URL in two records
C1_NoDuplicateResults ==
    /\ Cardinality(ResultUrls) = Len(results)
    /\ Cardinality({normalize_url(u, None) : u \in ResultUrls}) = Len(results)

C1_Witness ==
    /\ pc = "done"
    /\ Len(results) = 3
    /\ \E i \in Indices(results) :
          /\ results[i].links_found > 0
          /\ LinksOf(results[i].url) \cap {results[j].url : j \in 1..(i - 1)} # {}

\* C2: in every state of a run the number of records is at most max_pages,
\* records of non-200 responses, robots denials and parse failures included
C2_PageBudget == Len(results) <= max_pages

C2_Witness ==
    /\ pc = "done"
    /\ Len(results) = max_pages
    /\ queue # <<>>
    /\ \E i \in Indices(results) : results[i].status_code = 0
    /\ \E i \in Indices(results) : results[i].snippet = "parse error"

\* C3: every record has depth <= max_depth, and every URL the run has fetched
\* or recorded when it returns (the list and the log only grow) lies within
\* link distance max_depth of the seeds, so none lies at distance max_depth + 1
C3_DepthBound ==
    /\ \A i \in Indices(results) : results[i].depth <= max_depth
    /\ pc = "done" => (ResultUrls \cup GetTargets) \subseteq Within(max_depth)

C3_Witness ==
    /\ pc = "done"
    /\ cur[2] = max_depth + 1
    /\ cur[1] \notin Within(max_depth)
    /\ Len(results) >= 2

\* C4: every URL recorded or fetched has an origin in the active allow-set: the
\* seed origins when same_origin_only, else allowed_origins, None allowing all
C4_OriginAllowed ==
    \A u \in ResultUrls \cup GetTargets :
        IF same_origin_only THEN OriginOf(u) \in seed_origins
        ELSE allowed_origins = None \/ OriginOf(u) \in allowed_origins.some

\* C5: seed https://a.test/ linking to https://b.test/x, same_origin_only: the
\* link is never enqueued and never fetched
C5_SameOriginOnlyStaysHome ==
    (site = "cross" /\ seed_urls = <<A(<<"/">>)>> /\ same_origin_only)
        => B(<<"/", "x">>) \notin (seen \cup QueueUrls \cup GetTargets \cup ResultUrls)

C5_Witness ==
    /\ site = "cross" /\ seed_urls = <<A(<<"/">>)>> /\ same_origin_only
    /\ pc = "done"
    /\ Len(results) = 1
    /\ results[1].links_found = 1
    /\ B(<<"/", "x">>) \in LinksOf(results[1].url)

\* every request of the run succeeded: robots.txt read, pages served as HTML
AllSucceeded == \A i \in Indices(net) : net[i].outcome \in {"slept", "rules", "html"}

CrossScenario(allowed) ==
    /\ site = "cross" /\ seed_urls = <<A(<<"/">>)>>
    /\ ~same_origin_only /\ allowed_origins = allowed
    /\ max_depth >= 1 /\ max_pages >= 2
    /\ pc = "done" /\ elapsed < timeout_seconds
    /\ AllSucceeded

\* C6 as stated: with allowed_origins = {https://b.test} and same_origin_only
\* false the run fetches https://b.test/x and records it
C6_AllowedOriginIsFetched ==
    CrossScenario(Some({OriginB}))
        => B(<<"/", "x">>) \in GetTargets /\ B(<<"/", "x">>) \in ResultUrls

\* C6 amended: with allowed_origins = {https://a.test, https://b.test} and
\* same_origin_only false the run fetches https://b.test/x and records it
C6_AllowedWithSeedOriginIsFetched ==
    CrossScenario(Some({OriginA, OriginB}))
        => B(<<"/", "x">>) \in GetTargets /\ B(<<"/", "x">>) \in ResultUrls

C6_Witness ==
    /\ CrossScenario(Some({OriginA, OriginB}))
    /\ B(<<"/", "x">>) \in ResultUrls
    /\ Len(results) = 2

\* C7: when the request of robots.txt raises, answers non-200 or answers text
\* that cannot be parsed, can_fetch is true for every URL of the origin
C7_RobotsFailOpen ==
    \A i \in Indices(net) :
        (net[i].kind = "robots" /\ net[i].outcome \in {"timeout", "status", "garbage"})
            => \A u \in seen :
                  _origin(u) = net[i].target
                      => rp_can_fetch(robots_cache[net[i].target], u)

\* C8: a URL the robots policy denies gets status 0 and no GET, a URL that was
\* GET was not denied, and a run whose only seed is denied makes no page GET
C8_RobotsDenialNoGet ==
    /\ \A i \in Indices(results) :
          /\ results[i].status_code = 0 <=> Denied(results[i].url)
          /\ results[i].status_code = 0 => results[i].url \notin GetTargets
    /\ \A u \in GetTargets : ~Denied(u)
    /\ (pc = "done" /\ Cardinality(seen) = 1 /\ \A u \in seen : Denied(u))
          => GetTargets = {} /\ Len(results) = 1

C8_Witness ==
    /\ pc = "done"
    /\ seed_urls = <<A(<<"/", "private", "/", "page">>)>>
    /\ Cardinality(seen) = 1
    /\ \A u \in seen : DisallowedByRobotsTxt(u)
    /\ GetTargets = {}
    /\ Len(results) = 1 /\ results[1].status_code = 0

\* C9 as stated: no record is appended for an entry denied by robots.txt, of a
\* disallowed origin or deeper than max_depth
C9_DenialsLeaveNoRecord ==
    \A i \in Indices(results) :
        /\ ~DisallowedByRobotsTxt(results[i].url)
        /\ allow_domain(results[i].url, effective_allowed)
        /\ results[i].depth <= max_depth

\* C9 amended: an entry deeper than max_depth or of a disallowed origin is
\* dropped with no record, request or delay; an entry the robots policy denies
\* raises nothing either but is recorded with status 0, without any GET
C9_SkipsAndRecordedDenials ==
    [][ /\ (/\ pc = "loop" /\ queue # <<>> /\ queue' = Tail(queue)
            /\ \/ Head(queue)[2] > max_depth
               \/ ~allow_domain(Head(queue)[1], effective_allowed))
           => /\ results' = results /\ net' = net
              /\ elapsed' = elapsed /\ pc' = "loop"
        /\ (/\ pc = "can_fetch"
            /\ ~rp_can_fetch(robots_cache'[_origin(cur[1])], cur[1]))
           => /\ results' = Append(results,
                    CrawlResult(cur[1], cur[2], "", "", "[HTTP 0]", 0, 0))
              /\ pc' = "loop"
              /\ \A i \in Indices(net') : i > Len(net) => net'[i].kind = "robots"
      ]_vars

C9_Witness ==
    /\ pc = "done"
    /\ \E i \in Indices(results) :
          results[i].status_code = 0 /\ DisallowedByRobotsTxt(results[i].url)
    /\ cur[2] > max_depth
    /\ Len(results) < max_pages

\* C10: when the GET of the dequeued URL raises, no record is appended, the
\* frontier and the visited-set stay as they are, and the loop goes on: the
\* run returns only with the frontier empty or a budget used up
FetchRaised ==
    /\ pc = "get"
    /\ Len(net') = Len(net) + 1
    /\ net'[Len(net')].outcome = "timeout"

C10_FetchErrorSkipsEntry ==
    /\ [][FetchRaised => /\ results' = results /\ queue' = queue
                         /\ seen' = seen /\ pc' = "loop"]_vars
    /\ [](pc = "done" => \/ queue = <<>>
                         \/ Len(results) >= max_pages
                         \/ elapsed >= timeout_seconds)

C10_Witness ==
    /\ pc = "done"
    /\ \E i, j \in Indices(net) :
          /\ i < j
          /\ net[i].kind = "get" /\ net[i].outcome = "timeout"
          /\ net[i].target \notin ResultUrls
          /\ net[j].kind = "get" /\ net[j].outcome = "html"
          /\ net[j].target \in ResultUrls

\* no seed of the run normalises to an http or https URL
NoValidSeed == \A i \in 1..Len(seed_urls) : normalize_url(seed_urls[i], None) = None

\* C11: when no seed normalises to a valid http/https URL the run is rejected:
\* no request is made and what the caller gets differs from what a successful
\* crawl that found zero pages gives
C11_NoValidSeedRejected ==
    (pc = "done" /\ NoValidSeed)
        => /\ net = <<>>
           /\ crawl_website # _format_crawl_results(<<>>)

\* the normalised URLs the webs of the model serve or link to
Pages ==
    {A(<<"/">>), A(<<"/", "b">>), A(<<"/", "c">>), A(<<"/", "d">>), A(<<"/", "slow">>),
     A(<<"/", "private", "/", "page">>), X(<<"/">>), B(<<"/", "x">>), B(<<"/", "y">>)}

\* what is left of a run: the URLs never enqueued yet weigh more than the
\* entries of the frontier, these more than the steps of one iteration; the
\* clock and the page budget take no part
PcRank ==
    CASE pc = "done" -> 0
      [] pc = "loop" -> 1
      [] pc = "get" -> 2
      [] pc = "start" -> 2
      [] pc = "can_fetch" -> 3
      [] OTHER -> 4
Rank == 5 * Cardinality(Pages \ seen) + 4 * Len(queue) + PcRank

\* C12: every run over pages with finitely many links returns, whatever the
\* budgets and also when every fetch fails; not by the clock: every URL is
\* enqueued at most once and every step of the run, a failed fetch and the
\* discarding of a too deep entry included, uses up what is left of it
C12_Terminates ==
    /\ <>(pc = "done")
    /\ [](elapsed < timeout_seconds /\ seen \subseteq Pages)
    /\ [][Rank' < Rank]_vars

\* a run that returned with budget left although every request of it failed
C12_Witness ==
    /\ pc = "done"
    /\ elapsed < timeout_seconds
    /\ Len(results) < max_pages
    /\ Cardinality(GetTargets) >= 2
    /\ \A i \in Indices(net) : net[i].kind = "get" => net[i].outcome = "timeout"

\* C13: the frontier is processed breadth-first: its entries lie in order of
\* depth and none is shallower than the entry dequeued last or than a record,
\* so every entry of depth d is dequeued before any of depth d + 1 and the
\* depths of the records, read in list order, never decrease
C13_BreadthFirst ==
    /\ \A i, j \in Indices(queue) : i < j => queue[i][2] <= queue[j][2]
    /\ \A i \in Indices(queue) : cur[2] <= queue[i][2]
    /\ \A i \in Indices(results) : \A j \in Indices(queue) :
          results[i].depth <= queue[j][2]
    /\ \A i, j \in Indices(results) : i < j => results[i].depth <= results[j].depth

C13_Witness ==
    /\ pc = "done"
    /\ Len(results) = 3
    /\ results[2].depth = 0 /\ results[3].depth = 1
    /\ results[1].links_found > 0
    /\ queue # <<>>

\* C14: seeds [https://a.test/], max_pages 5, max_depth 1, same_origin_only,
\* page / linking to /b, /c and https://x.test/, every page served as 200 HTML
\* and robots.txt allowing: the records are exactly those of https://a.test/
\* at depth 0 and of https://a.test/b and https://a.test/c at depth 1
C14_Scenario ==
    (/\ site = "tree" /\ seed_urls = <<A(<<"/">>)>>
     /\ max_pages = 5 /\ max_depth = 1 /\ same_origin_only
     /\ pc = "done" /\ AllSucceeded)
        => /\ ResultUrls = {A(<<"/">>), A(<<"/", "b">>), A(<<"/", "c">>)}
           /\ \A i \in Indices(results) :
                 results[i].depth = IF results[i].url = A(<<"/">>) THEN 0 ELSE 1

C14_Witness ==
    /\ site = "tree" /\ seed_urls = <<A(<<"/">>)>>
    /\ max_pages = 5 /\ max_depth = 1 /\ same_origin_only
    /\ pc = "done" /\ AllSucceeded
    /\ LinksOf(A(<<"/">>)) = {A(<<"/", "b">>), A(<<"/", "c">>), X(<<"/">>)}
    /\ Len(results) = 3
    /\ \A i \in Indices(results) : results[i].status_code = 200

\* C15: the limits a run operates under lie within max_pages 1..500, max_depth
\* 1..20, timeout 5..300 and delay 0..10 seconds, whether they come from the
\* settings or from the caller of crawl_website or run_crawl
C15_LimitsWithinCeilings ==
    pc = "start" => /\ max_pages \in 1..500
                    /\ max_depth \in 1..20
                    /\ timeout_seconds \in 5..300
                    /\ request_delay \in 0..10

\* the requests of robots.txt made so far for an origin
RobotsRequests(origin) ==
    {i \in Indices(net) : net[i].kind = "robots" /\ net[i].target = origin}

\* C16: across the can_fetch calls of a process, one after another, robots.txt
\* of an origin is requested at most once: the first query stores an entry for
\* the origin, also when the request failed or was answered non-200; an entry
\* is never removed or replaced; a query for a cached origin is answered from
\* its entry with no request
C16_RobotsRequestedOnce ==
    /\ [](/\ \A i \in Indices(net) :
               net[i].kind = "robots" => Cardinality(RobotsRequests(net[i].target)) = 1
          /\ DOMAIN robots_cache =
               {net[i].target : i \in {j \in Indices(net) : net[j].kind = "robots"}})
    /\ [][/\ \A o \in DOMAIN robots_cache :
               o \in DOMAIN robots_cache' /\ robots_cache'[o] = robots_cache[o]
          /\ (pc = "can_fetch" /\ _origin(cur[1]) \in DOMAIN robots_cache)
               => /\ net' = net
                  /\ pc' = IF rp_can_fetch(robots_cache[_origin(cur[1])], cur[1])
                            THEN "get" ELSE "loop"
       ]_vars

\* a second run is answered from the entries of the first, of which the one
\* of https://b.test was stored although its robots.txt timed out
C16_Witness ==
    /\ seed_urls = <<B(<<"/", "x">>), A(<<"/">>)>>
    /\ pc = "get" /\ cur = <<A(<<"/">>), 0>>
    /\ Len(results) = 1
    /\ results[1].url = B(<<"/", "x">>) /\ results[1].status_code = 0
    /\ Len(net) = 3
    /\ \E i \in Indices(net) :
          net[i].kind = "robots" /\ net[i].target = OriginB /\ net[i].outcome = "timeout"
    /\ \E i \in Indices(net) : net[i].kind = "get" /\ net[i].target = A(<<"/">>)

\* two strings that are the same up to the case of their letters
SameLetters(x, y) ==
    \/ x = y
    \/ {x, y} = {"http", "HTTP"}
    \/ {x, y} = {"example.com", "EXAMPLE.com"}

\* a path without the slash that ends it, the root path left as it is
WithoutTrailingSlash(path) ==
    IF Len(path) > 1 /\ path[Len(path)] = "/" THEN SubSeq(path, 1, Len(path) - 1)
    ELSE path

\* u and v differ at most in the case of scheme and host, in their fragments
\* and in a trailing slash of a path that is not the root
DifferInCaseFragmentSlash(u, v) ==
    /\ SameLetters(u.scheme, v.scheme)
    /\ SameLetters(u.netloc, v.netloc)
    /\ WithoutTrailingSlash(u.path) = WithoutTrailingSlash(v.path)
    /\ u.query = v.query

\* C17: normalize_url maps two URLs that differ only in the case of scheme or
\* host, in the fragment or in a trailing slash on a non-root path to the same
\* string, so that of two such seeds the second is dropped as seen; two URLs
\* whose query strings differ are mapped to different strings, both enqueued
C17_NormalizeEquivalence ==
    (pc = "loop" /\ Len(seed_urls) = 2) =>
        LET u == seed_urls[1]
            v == seed_urls[2]
        IN  /\ DifferInCaseFragmentSlash(u, v)
                => Len(queue) = 1 /\ Cardinality(seen) = 1
            /\ u.query # v.query
                => /\ Len(queue) = 2 /\ Cardinality(seen) = 2
                   /\ queue[1][1] # queue[2][1]

\* http://EXAMPLE.com/a/ and http://example.com/a#section as seeds
C17_Witness ==
    /\ pc = "loop"
    /\ seed_urls = <<U("http", "EXAMPLE.com", <<"/", "a", "/">>, "", ""),
                     U("http", "example.com", <<"/", "a">>, "", "section")>>
    /\ seen = {U("http", "example.com", <<"/", "a">>, "", "")}
    /\ Len(queue) = 1

\* the records of pages that were parsed for links
Parsed == {i \in Indices(results) : results[i].links_found > 0}

\* C19: with allowed_origins supplied (here: a set that is not empty) only
\* URLs of these origins are crawled, and a link to one of these origins is
\* followed also when same_origin_only is true and the origin is not an origin
\* of a seed
C19_AllowedOriginsOverride ==
    (allowed_origins # None /\ allowed_origins # Some({})) =>
        /\ \A u \in ResultUrls \cup GetTargets : OriginOf(u) \in allowed_origins.some
        /\ \A i \in Parsed : \A n \in LinksOf(results[i].url) :
              OriginOf(n) \in allowed_origins.some => n \in seen

\* C20: with same_origin_only a link is enqueued only if it has the origin of
\* the page it was found on: every URL of the visited-set is a seed or a link
\* of a parsed page of its own origin, also with seeds on two origins
C20_SameOriginAsReferrer ==
    same_origin_only =>
        \A n \in seen :
            \/ \E i \in Indices(seed_urls) : normalize_url(seed_urls[i], None) = n
            \/ \E i \in Parsed :
                  /\ n \in LinksOf(results[i].url)
                  /\ OriginOf(n) = OriginOf(results[i].url)

\* the seeds of the run as normalize_url gives them
NormalisedSeeds ==
    {normalize_url(seed_urls[i], None) : i \in Indices(seed_urls)} \ {None}

\* a run begins with the frontier and the visited-set made of its seeds alone,
\* with no record and with the clock at 0
FreshLocals ==
    /\ seen' = NormalisedSeeds
    /\ {queue'[i][1] : i \in Indices(queue')} = NormalisedSeeds
    /\ Len(queue') = Cardinality(NormalisedSeeds)
    /\ seed_origins' = {OriginOf(u) : u \in NormalisedSeeds}
    /\ results' = <<>>
    /\ elapsed' = 0

\* C21 as stated: nothing a run made survives it: a run of the process begins
\* with new locals and with no robots policy, every origin's policy being
\* derived again
C21_NoStateSurvives ==
    [][pc = "start" => (FreshLocals /\ robots_cache' = <<>>)]_vars

\* C21 amended: the frontier, the visited-set, the seed origins and the
\* records of a run do not survive it, every run beginning with new ones; the
\* robots policies do: a call of run_crawl leaves the entries of the runs
\* before in place and the run is answered from them
C21_OnlyRobotsCacheSurvives ==
    [][/\ pc = "start" => (FreshLocals /\ robots_cache' = robots_cache)
       /\ pc = "done" => robots_cache' = robots_cache
      ]_vars

\* a second run has begun, on seeds the first run had visited, with the
\* policies the first run stored
C21_Witness ==
    /\ pc = "loop"
    /\ results = <<>> /\ elapsed = 0
    /\ net # <<>>
    /\ DOMAIN robots_cache = {OriginA}
    /\ seed_urls = <<B(<<"/", "x">>), A(<<"/">>)>>
    /\ Len(queue) = 2
    /\ GetTargets = {A(<<"/">>)}

\* the step is the page GET of the dequeued URL and ends with the outcome o
GetEnded(o) ==
    /\ pc = "get"
    /\ Len(net') = Len(net) + 1
    /\ net'[Len(net')].kind = "get" /\ net'[Len(net')].outcome = o

\* C22: a fetch that answers a status other than 200, or 200 with an empty
\* body as for a content type that is not HTML, appends exactly one record
\* with empty title and description, the snippet "[HTTP <status>]" and
\* links_found 0; no link of the page is extracted or enqueued
C22_StatusOnlyRecord ==
    [][/\ GetEnded("http_error") =>
            /\ results' = Append(results, [url |-> cur[1], depth |-> cur[2],
                    title |-> "", description |-> "", snippet |-> "[HTTP 404]",
                    status_code |-> 404, links_found |-> 0])
            /\ queue' = queue /\ seen' = seen
       /\ GetEnded("non_html") =>
            /\ results' = Append(results, [url |-> cur[1], depth |-> cur[2],
                    title |-> "", description |-> "", snippet |-> "[HTTP 200]",
                    status_code |-> 200, links_found |-> 0])
            /\ queue' = queue /\ seen' = seen
      ]_vars

\* a page with links was answered 404 and a later one 200 without a body;
\* the run ended with nothing enqueued from them
C22_Witness ==
    /\ pc = "done"
    /\ Len(results) = 2
    /\ results[1].status_code = 404 /\ results[1].snippet = "[HTTP 404]"
    /\ results[2].status_code = 200 /\ results[2].snippet = "[HTTP 200]"
    /\ LinksOf(results[1].url) # {} /\ LinksOf(results[2].url) # {}
    /\ queue = <<>>
    /\ seen = {results[1].url, results[2].url}

\* C23: when parsing a fetched 200 HTML body raises, the run goes on: exactly
\* one record with the text of the error as snippet is appended, it counts
\* toward max_pages, and no link of the page is enqueued
C23_ParseErrorRecorded ==
    /\ [][GetEnded("bad_html") =>
            /\ results' = Append(results, [url |-> cur[1], depth |-> cur[2],
                    title |-> "", description |-> "", snippet |-> "parse error",
                    status_code |-> 200, links_found |-> 0])
            /\ queue' = queue /\ seen' = seen
            /\ pc' = "loop"]_vars
    /\ [](Len(results) <= max_pages)
    /\ [](pc = "done" => \/ queue = <<>>
                         \/ Len(results) >= max_pages
                         \/ elapsed >= timeout_seconds)

\* the record of a parse error, on a page with links, was the one that used
\* up the page budget, with entries left in the frontier
C23_Witness ==
    /\ pc = "done"
    /\ max_pages = 2 /\ Len(results) = 2
    /\ results[2].snippet = "parse error" /\ results[2].status_code = 200
    /\ LinksOf(results[2].url) \ seen # {}
    /\ queue # <<>>
    /\ elapsed < timeout_seconds

\* C24: a dequeued URL that passed the depth and origin checks and that the
\* robots policy denies is recorded with the sentinel status 0, the snippet
\* "[HTTP 0]" and no links, and the record counts toward max_pages as any other
C24_RobotsDenialRecorded ==
    /\ [](pc = "can_fetch" =>
            cur[2] <= max_depth /\ allow_domain(cur[1], effective_allowed))
    /\ [][(pc = "can_fetch" /\ pc' # "get") =>
            /\ ~rp_can_fetch(robots_cache'[_origin(cur[1])], cur[1])
            /\ results' = Append(results, [url |-> cur[1], depth |-> cur[2],
                    title |-> "", description |-> "", snippet |-> "[HTTP 0]",
                    status_code |-> 0, links_found |-> 0])
            /\ queue' = queue /\ seen' = seen
            /\ pc' = "loop"]_vars
    /\ [][(pc = "can_fetch" /\ ~rp_can_fetch(robots_cache'[_origin(cur[1])], cur[1]))
            => Len(results') = Len(results) + 1]_vars
    /\ [](pc = "loop" /\ Len(results) >= max_pages => ~LoopGuard)

\* the record of a denial was the one that used up the page budget
C24_Witness ==
    /\ pc = "done"
    /\ Len(results) = max_pages
    /\ results[Len(results)].status_code = 0
    /\ results[Len(results)].snippet = "[HTTP 0]"
    /\ DisallowedByRobotsTxt(results[Len(results)].url)
    /\ GetTargets = {}
    /\ queue # <<>>
    /\ elapsed < timeout_seconds

\* the entries a step appends to the frontier
Appended == SubSeq(queue', Len(queue) + 1, Len(queue'))

\* C25: within one run every normalized URL is added to the frontier at most
\* once, by the first page that discovers it: the seeds at depth 0, a link of a
\* page of depth d at depth d + 1; a URL already in the visited-set is never
\* appended again and the entries waiting in the frontier are never rewritten
C25_EnqueuedOnce ==
    /\ [](pc # "start" =>
            /\ QueueUrls \subseteq seen
            /\ \A i, j \in Indices(queue) : queue[i][1] = queue[j][1] => i = j)
    /\ [][pc = "start" =>
            /\ \A i \in Indices(queue') : queue'[i][2] = 0
            /\ \A i, j \in Indices(queue') : queue'[i][1] = queue'[j][1] => i = j]_vars
    /\ [][pc \notin {"start", "done"} => seen \subseteq seen']_vars
    /\ [][pc = "get" =>
            /\ Len(queue') >= Len(queue)
            /\ SubSeq(queue', 1, Len(queue)) = queue
            /\ \A i \in Indices(Appended) :
                    /\ Appended[i][2] = cur[2] + 1
                    /\ Appended[i][1] \notin seen
                    /\ Appended[i][1] \in seen'
                    /\ Appended[i][1] \in LinksOf(cur[1])
                    /\ \A j \in Indices(Appended) : Appended[j][1] = Appended[i][1] => i = j
            /\ seen' = seen \cup {Appended[i][1] : i \in Indices(Appended)}]_vars
    /\ [][pc \notin {"start", "get"} =>
            /\ queue' = queue \/ (queue # <<>> /\ queue' = Tail(queue))
            /\ seen' = seen]_vars

\* the page /b of depth 1 linked to the seed /, to /c that the seed had already
\* discovered, and to the new /d: /c waits once at depth 1, /d at depth 2
C25_Witness ==
    /\ pc = "loop"
    /\ Len(results) = 2
    /\ results[1].url = A(<<"/">>) /\ results[1].depth = 0 /\ results[1].links_found = 3
    /\ results[2].url = A(<<"/", "b">>) /\ results[2].depth = 1
    /\ results[2].links_found = 3
    /\ {A(<<"/">>), A(<<"/", "c">>)} \subseteq LinksOf(A(<<"/", "b">>))
    /\ \E i \in Indices(queue) : queue[i] = <<A(<<"/", "c">>), 1>>
    /\ \E i \in Indices(queue) : queue[i] = <<A(<<"/", "d">>), 2>>
    /\ A(<<"/">>) \notin QueueUrls

\* the entry of u has been dequeued and is on its way through delay, robots
\* check and GET
InFlight(u) == pc \in {"sleep", "can_fetch", "get"} /\ cur[1] = u

\* C26: an entry discarded at dequeue for its depth or its origin stays in the
\* visited-set and is in the frontier no more, and a visited URL that is neither
\* in the frontier nor in flight never returns to the frontier and is never
\* fetched for the rest of the run, whichever page links to it again
C26_DiscardedNeverRetried ==
    /\ [][(pc = "loop" /\ pc' = "loop" /\ queue' # queue) =>
            /\ (cur'[2] > max_depth \/ ~allow_domain(cur'[1], effective_allowed))
            /\ cur' = Head(queue)
            /\ cur'[1] \in seen'
            /\ cur'[1] \notin QueueUrls'
            /\ net' = net /\ results' = results]_vars
    /\ [][pc # "start" =>
            \A u \in seen : (u \notin QueueUrls /\ ~InFlight(u)) =>
                /\ u \in seen'
                /\ u \notin QueueUrls'
                /\ ~(pc' \in {"sleep", "can_fetch", "get"} /\ cur'[1] = u)
                /\ Len(net') > Len(net) => net'[Len(net')].target # u]_vars

\* the seed / was discarded for its origin, then /x of the allowed origin was
\* fetched and linked back to it: / was neither enqueued nor fetched
C26_Witness ==
    /\ pc = "done"
    /\ seed_urls[1] = A(<<"/">>)
    /\ ~allow_domain(A(<<"/">>), effective_allowed)
    /\ Len(results) = 1
    /\ results[1].url = B(<<"/", "x">>) /\ results[1].status_code = 200
    /\ results[1].links_found = 2
    /\ A(<<"/">>) \in LinksOf(B(<<"/", "x">>))
    /\ A(<<"/">>) \in seen
    /\ A(<<"/">>) \notin GetTargets
    /\ B(<<"/", "y">>) \in seen
    /\ Len(queue) <= 1

\* C27: a link of a parsed page whose normalization fails or whose origin is
\* not allowed leaves the visited-set and the frontier as they are; the links
\* that enter the visited-set are exactly the ones appended to the frontier,
\* and each of them normalizes and is of an allowed origin
C27_RejectedLinkLeavesNoTrace ==
    /\ [](None \notin seen /\ None \notin QueueUrls)
    /\ [][GetEnded("html") =>
            /\ \A n \in LinksOf(cur[1]) :
                    ~allow_domain(n, effective_allowed) =>
                        /\ n \in seen' <=> n \in seen
                        /\ n \in QueueUrls' <=> n \in QueueUrls
            /\ seen' \ seen = {Appended[i][1] : i \in Indices(Appended)}
            /\ seen' \ seen =
                    {n \in LinksOf(cur[1]) \ seen : allow_domain(n, effective_allowed)}
            /\ SubSeq(queue', 1, Len(queue)) = queue]_vars

\* the seed / linked to /b, /c and to https://x.test/ of a foreign origin: the
\* first two wait in the frontier, the third is in neither collection
C27_Witness ==
    /\ pc = "loop"
    /\ Len(results) = 1
    /\ results[1].url = A(<<"/">>) /\ results[1].status_code = 200
    /\ results[1].links_found = 3
    /\ X(<<"/">>) \in LinksOf(A(<<"/">>))
    /\ ~allow_domain(X(<<"/">>), effective_allowed)
    /\ X(<<"/">>) \notin seen
    /\ queue = << <<A(<<"/", "b">>), 1>>, <<A(<<"/", "c">>), 1>> >>
    /\ seen = {A(<<"/">>), A(<<"/", "b">>), A(<<"/", "c">>)}

\* C28: the timeout a page fetch runs under, seen as the time a fetch that
\* times out takes, is the lesser of 15 s and one third of the run budget that
\* remains when the fetch starts, and it is positive
C28_TimeoutFromRemainingBudget ==
    [][GetEnded("timeout") =>
        /\ elapsed' - elapsed =
                Min(FetchTimeoutCap, (timeout_seconds - elapsed) \div 3)
        /\ elapsed' > elapsed]_vars

\* the three guards of the loop check, read off the state
BudgetsLeft ==
    queue # <<>> /\ Len(results) < max_pages /\ elapsed < timeout_seconds

CallsOf(kind) == {i \in Indices(net) : net[i].kind = kind}

\* C30: with request_delay > 0 every robots.txt request and every page GET is
\* preceded, in the iteration of its entry, by one sleep of request_delay, so a
\* sleep lies between any two page GETs; an entry discarded for its depth or
\* its origin costs no sleep and no time
C30_DelayBeforeEveryCall ==
    /\ [](request_delay > 0 =>
            /\ \A i \in CallsOf("robots") :
                    /\ i > 1
                    /\ net[i - 1].kind = "sleep"
                    /\ _origin(net[i - 1].target) = net[i].target
            /\ \A i \in CallsOf("get") :
                    /\ i > 1
                    /\ \/ net[i - 1].kind = "sleep" /\ net[i - 1].target = net[i].target
                       \/ /\ i > 2
                          /\ net[i - 1].kind = "robots"
                          /\ net[i - 2].kind = "sleep"
                          /\ net[i - 2].target = net[i].target
            /\ \A i, k \in CallsOf("get") :
                    i < k => \E j \in CallsOf("sleep") : i < j /\ j < k)
    /\ [][(request_delay > 0 /\ pc = "sleep") =>
            /\ net' = Append(net, [kind |-> "sleep", target |-> cur[1], outcome |-> "slept"])
            /\ elapsed' = elapsed + request_delay
            /\ pc' = "can_fetch"]_vars
    /\ [][pc' \in {"can_fetch", "get"} => pc \in {"sleep", "can_fetch"}]_vars
    /\ [][(pc \in {"can_fetch", "get"} /\ Len(net') > Len(net)) =>
            net'[Len(net')].kind # "sleep"]_vars
    /\ [][(pc = "loop" /\ pc' = "loop") =>
            (queue' = Tail(queue) /\ net' = net /\ elapsed' = elapsed)]_vars

\* two seeds were fetched, each after its own sleep, and the links of the first
\* were discarded for their depth without a sleep
C30_Witness ==
    /\ pc = "done"
    /\ request_delay > 0
    /\ Cardinality(CallsOf("get")) = 2
    /\ Cardinality(CallsOf("sleep")) = 2
    /\ Cardinality(seen) > 2
    /\ queue = <<>>
    /\ elapsed = 2 * request_delay

InAllowSet(url, origins) ==
    IF origins = None THEN TRUE ELSE OriginOf(url) \in origins.some

\* C32: allow_domain allows every URL only for None; for a set, the empty one
\* included, it is membership of the origin; so with same_origin_only false the
\* dequeue-time check lets an entry through exactly if its origin is a member
C32_AllowDomainMembership ==
    /\ [](\A u \in seen :
            allow_domain(u, allowed_origins) = InAllowSet(u, allowed_origins))
    /\ [][(pc = "loop" /\ BudgetsLeft /\ Head(queue)[2] <= max_depth
            /\ ~same_origin_only) =>
            ((pc' = "sleep") = InAllowSet(Head(queue)[1], allowed_origins))]_vars

\* the positions of the seeds that normalize and whose normalized form no
\* earlier seed has, and the number of them up to position i
KeptSeeds ==
    {i \in Indices(seed_urls) :
        /\ normalize_url(seed_urls[i], None) # None
        /\ \A j \in 1..(i - 1) :
                normalize_url(seed_urls[j], None) # normalize_url(seed_urls[i], None)}
KeptUpTo(i) == Cardinality({j \in KeptSeeds : j <= i})

\* C33: a seed that fails normalization is dropped, with no call made for it;
\* the seeds that normalize are enqueued at depth 0 in their order in the seed
\* list, each normalized URL once
C33_InvalidSeedsDropped ==
    /\ [][pc = "start" =>
            /\ Len(queue') = Cardinality(KeptSeeds)
            /\ \A i \in KeptSeeds :
                    queue'[KeptUpTo(i)] = <<normalize_url(seed_urls[i], None), 0>>
            /\ seen' = {normalize_url(seed_urls[i], None) : i \in KeptSeeds}
            /\ net' = net /\ results' = <<>> /\ pc' = "loop"]_vars
    /\ [](\A i \in Indices(net) :
            /\ net[i].kind # "robots" =>
                    (net[i].target \in seen /\ net[i].target.scheme \in {"http", "https"})
            /\ net[i].kind = "robots" => net[i].target[1] \in {"http", "https"})

\* of the four seeds the mailto: one was dropped, the next two normalized to
\* the same /b, the last to /: both were fetched, in that order
C33_Witness ==
    /\ Len(seed_urls) = 4
    /\ normalize_url(seed_urls[1], None) = None
    /\ KeptSeeds = {2, 4}
    /\ pc = "done"
    /\ Len(results) >= 2
    /\ results[1].url = A(<<"/", "b">>) /\ results[1].depth = 0
    /\ results[2].url = A(<<"/">>) /\ results[2].depth = 0

\* C34: in every state of a run the visited-set holds the URL of every entry
\* of the frontier and of every record, the frontier holds no URL twice, and
\* no URL is in the frontier and in the result list at once
C34_VisitedCoversFrontierAndResults ==
    pc # "start" =>
        /\ QueueUrls \subseteq seen
        /\ ResultUrls \subseteq seen
        /\ \A i, j \in Indices(queue) : queue[i][1] = queue[j][1] => i = j
        /\ QueueUrls \cap ResultUrls = {}
        /\ \A i, j \in Indices(results) : results[i].url = results[j].url => i = j

\* three pages are recorded and entries wait; a recorded page links to another
\* recorded page and to a URL that waits in the frontier
C34_Witness ==
    /\ pc = "done"
    /\ Len(results) = 3
    /\ queue # <<>>
    /\ \E i \in Indices(results) :
            /\ LinksOf(results[i].url) \cap (ResultUrls \ {results[i].url}) # {}
            /\ LinksOf(results[i].url) \cap QueueUrls # {}

\* C35: in every state of a run the depths of the frontier entries do not
\* decrease from head to tail, the tail is at most one level deeper than the
\* head, and no entry is deeper than max_depth + 1
C35_FrontierDepthsOrdered ==
    pc # "start" =>
        /\ \A i, j \in Indices(queue) : i < j => queue[i][2] <= queue[j][2]
        /\ queue # <<>> => queue[Len(queue)][2] - queue[1][2] <= 1
        /\ \A i \in Indices(queue) : queue[i][2] >= 0 /\ queue[i][2] <= max_depth + 1
        /\ (pc \in {"sleep", "can_fetch", "get"} /\ queue # <<>>) =>
                (cur[2] <= queue[1][2] /\ queue[Len(queue)][2] <= cur[2] + 1)

\* a page of depth max_depth has been parsed: its links wait one level below
\* the budget, behind an entry of depth max_depth
C35_Witness ==
    /\ pc = "loop"
    /\ max_depth >= 1
    /\ Len(queue) >= 2
    /\ queue[1][2] = max_depth
    /\ queue[Len(queue)][2] = max_depth + 1
    /\ results # <<>> /\ results[Len(results)].depth = max_depth
    /\ results[Len(results)].links_found > 0

\* C36: with same_origin_only true every entry of the frontier has its origin
\* in the seed-origin set and the origin check at dequeue discards none; an
\* entry that the check at dequeue discards is a seed, same_origin_only is
\* false and allowed_origins is a set that lacks the seed's origin
C36_DequeueCheckRejectsOnlySeeds ==
    /\ [](pc # "start" =>
            /\ same_origin_only =>
                    \A i \in Indices(queue) : OriginOf(queue[i][1]) \in seed_origins
            /\ \A i \in Indices(queue) :
                    queue[i][2] > 0 => allow_domain(queue[i][1], effective_allowed))
    /\ [][(pc = "loop" /\ pc' = "loop" /\ queue' # queue /\ Head(queue)[2] <= max_depth) =>
            /\ ~same_origin_only
            /\ Head(queue)[2] = 0
            /\ \E i \in Indices(seed_urls) :
                    normalize_url(seed_urls[i], None) = Head(queue)[1]
            /\ allowed_origins # None
            /\ OriginOf(Head(queue)[1]) \notin allowed_origins.some]_vars

\* of two seeds the first was fetched and the second, of an origin outside
\* allowed_origins, was taken off the frontier without a call
C36_Witness ==
    /\ pc \in {"loop", "done"}
    /\ ~same_origin_only
    /\ allowed_origins = Some({OriginA})
    /\ Len(results) = 1 /\ results[1].url = A(<<"/">>) /\ results[1].status_code = 200
    /\ cur = <<B(<<"/", "y">>), 0>>
    /\ \A i \in Indices(net) :
            /\ net[i].kind # "robots" => net[i].target # B(<<"/", "y">>)
            /\ net[i].kind = "robots" => net[i].target # OriginB
    /\ B(<<"/", "y">>) \in seen
    /\ B(<<"/", "y">>) \notin QueueUrls

\* C37: with same_origin_only true every request of the run, for robots.txt
\* and for pages, the requests sent on by redirects included, goes to an origin
\* of the seed-origin set
C37_RequestsWithinSeedOrigins ==
    same_origin_only =>
        \A i \in Indices(net) :
            /\ net[i].kind = "robots" => net[i].target \in seed_origins
            /\ net[i].kind = "get" => OriginOf(net[i].target) \in seed_origins

\* C38: when two threads call can_fetch for URLs of one origin that is not in
\* the cache, robots.txt of the origin is requested at most once, and the two
\* calls answer from the same policy entry: for the same URL, the same answer
C38_ConcurrentCallsShareOneRequest ==
    /\ \A i, j \in CallsOf("robots") : net[i].target = net[j].target => i = j
    /\ \A t, u \in Threads :
            (/\ callers[t].pc = "returned" /\ callers[u].pc = "returned"
             /\ callers[t].url = callers[u].url)
                => callers[t].answer = callers[u].answer

\* C39: crawl_website never raises to its caller; without a seed it answers
\* "No valid seed URLs provided" and run_crawl is not called; an exception of
\* run_crawl comes back as "Crawl failed"; the limits run_crawl is called with
\* are at least 1
C39_CrawlWebsiteNeverRaises ==
    /\ pc # "raised"
    /\ (seed_urls = <<>> /\ pc # "tool") =>
            (pc = "returned" /\ crawl_website.reply = "No valid seed URLs provided")
    /\ pc = "except" => crawl_website.reply = "Crawl failed"
    /\ pc \in {"try", "ran", "except"} =>
            (seed_urls # <<>> /\ max_pages >= 1 /\ max_depth >= 1)

\* C40: normalize_url maps its own output to itself, so every URL of the
\* visited-set and of the frontier is a fixed point of normalization
C40_NormalizeIdempotent ==
    /\ \A n \in seen : normalize_url(n, None) = n
    /\ \A i \in Indices(queue) : normalize_url(queue[i][1], None) = queue[i][1]

=============================================================================
